---------------------------- MODULE Spec2Model ----------------------------
(***************************************************************************)
(* A model of the requirements tool's backend: the requirement extractor   *)
(* and story synthesizer of backend/llm_client.py, the issue-tracker       *)
(* client of backend/jira_client.py and the HTTP handlers of               *)
(* backend/main.py.                                                        *)
(*                                                                         *)
(* Text is modelled as TLA+ strings, a document as the sequence of its     *)
(* lines (what str.splitlines() returns).  Two characters that cannot be   *)
(* written in a module are named by stand-ins: "@" is U+0000 (NUL) and     *)
(* "_" is U+00A0 (NO-BREAK SPACE, which NFKC maps to a plain space).       *)
(***************************************************************************)
EXTENDS Integers, Sequences, FiniteSets, TLC

VARIABLES
  pc,               \* where the running operation stands
  op,               \* the operation that is running or has just ended
  srs_text,         \* the specification document, as its lines
  max_stories,      \* the cap given to srs_to_user_stories
  req_lines,        \* what extract_requirement_lines returned to its caller
  raw,              \* the model backend's reply, as its lines
  out,              \* the list the operation returned
  payload,          \* the request a handler was called with
  lines,            \* /process: the review lines kept
  classifications,  \* /process: the labels given so far
  items,            \* the batch of a /jira handler
  idx,              \* the position of a loop in lines or items
  created,          \* the batch's "created" list
  failed,           \* the batch's "failed" list
  response,         \* how the operation ended
  askCalls,         \* calls of _ask made by the operation
  jiraCalls,        \* requests the operation sent to the issue tracker
  jira_env          \* whether the four JIRA_* settings were all present at import

vars == <<pc, op, srs_text, max_stories, req_lines, raw, out,
          payload, lines, classifications, items, idx, created, failed,
          response, askCalls, jiraCalls, jira_env>>

(***************************************************************************)
(* Characters and the string methods the code uses.                        *)
(***************************************************************************)
\* s[i-1:i]: the character at position i, "" outside the string
Char(s, i) == IF i >= 1 /\ i <= Len(s) THEN SubSeq(s, i, i) ELSE ""

NUL == "@"

NBSP == "_"

IsSpace(c) == c \in {" ", "\t"}

DigitSet == {"0", "1", "2", "3", "4", "5", "6", "7", "8", "9"}

IsDigit(c) == c \in DigitSet

UpperLetters == "ABCDEFGHIJKLMNOPQRSTUVWXYZ"

LowerLetters == "abcdefghijklmnopqrstuvwxyz"

UpperSet == {Char(UpperLetters, i) : i \in 1..26}

LowerMap == [c \in UpperSet |-> Char(LowerLetters, CHOOSE i \in 1..26 : c = Char(UpperLetters, i))]

LowerChar(c) == IF c \in UpperSet THEN LowerMap[c] ELSE c

RECURSIVE Lower(_)
\* str.lower(), character by character (the string is halved to keep the
\* evaluation shallow on long lines)
Lower(s) ==
  IF Len(s) <= 1 THEN LowerChar(s)
  ELSE Lower(SubSeq(s, 1, Len(s) \div 2)) \o Lower(SubSeq(s, Len(s) \div 2 + 1, Len(s)))

RECURSIVE SkipSpaces(_, _)
\* the first position from i on that holds no whitespace (Len(s) + 1 if none)
SkipSpaces(s, i) ==
  IF i <= Len(s) /\ IsSpace(Char(s, i)) THEN SkipSpaces(s, i + 1) ELSE i

RECURSIVE SkipSpacesBack(_, _)
\* the last position up to i that holds no whitespace (0 if none)
SkipSpacesBack(s, i) ==
  IF i >= 1 /\ IsSpace(Char(s, i)) THEN SkipSpacesBack(s, i - 1) ELSE i

\* str.lstrip(), str.rstrip(), str.strip()
LStrip(s) == SubSeq(s, SkipSpaces(s, 1), Len(s))

RStrip(s) == SubSeq(s, 1, SkipSpacesBack(s, Len(s)))

Strip(s) == LStrip(RStrip(s))

\* str.startswith(p), str.endswith(p), p in s
StartsWith(s, p) == Len(s) >= Len(p) /\ SubSeq(s, 1, Len(p)) = p

EndsWith(s, p) == Len(s) >= Len(p) /\ SubSeq(s, Len(s) - Len(p) + 1, Len(s)) = p

Contains(s, p) == \E i \in 1..(Len(s) - Len(p) + 1) : SubSeq(s, i, i + Len(p) - 1) = p

\* " ".join(s.split()): whitespace runs become one space, the ends are trimmed
RECURSIVE CollapseRange(_, _, _)
\* positions lo..hi of s with each whitespace run cut to one space
CollapseRange(s, lo, hi) ==
  IF lo > hi THEN ""
  ELSE IF lo = hi
       THEN IF IsSpace(Char(s, lo))
            THEN (IF IsSpace(Char(s, lo + 1)) THEN "" ELSE " ")
            ELSE Char(s, lo)
  ELSE CollapseRange(s, lo, (lo + hi) \div 2) \o CollapseRange(s, (lo + hi) \div 2 + 1, hi)

CollapseWs(s) == CollapseRange(Strip(s), 1, Len(Strip(s)))

\* s.replace("\x00", "")
RECURSIVE RemoveNul(_)
RemoveNul(s) ==
  IF Len(s) <= 1 THEN (IF s = NUL THEN "" ELSE s)
  ELSE RemoveNul(SubSeq(s, 1, Len(s) \div 2)) \o RemoveNul(SubSeq(s, Len(s) \div 2 + 1, Len(s)))

\* unicodedata.normalize("NFKC", s), on the model's alphabet
NfkcChar(c) == IF c = NBSP THEN " " ELSE c

RECURSIVE Nfkc(_)
Nfkc(s) ==
  IF Len(s) <= 1 THEN NfkcChar(s)
  ELSE Nfkc(SubSeq(s, 1, Len(s) \div 2)) \o Nfkc(SubSeq(s, Len(s) \div 2 + 1, Len(s)))

RECURSIVE StarRunStart(_, _)
\* the first position of the run of "*" that holds position i
StarRunStart(s, i) == IF Char(s, i - 1) = "*" THEN StarRunStart(s, i - 1) ELSE i

\* s.replace("**", "") takes the non-overlapping occurrences from the left:
\* a run of "*" loses its characters in pairs, and keeps its last one when
\* its length is odd
BoldKeeps(s, i) ==
  \/ Char(s, i) # "*"
  \/ /\ (i - StarRunStart(s, i)) % 2 = 0
     /\ Char(s, i + 1) # "*"

RECURSIVE RemoveBoldRange(_, _, _)
RemoveBoldRange(s, lo, hi) ==
  IF lo > hi THEN ""
  ELSE IF lo = hi THEN (IF BoldKeeps(s, lo) THEN Char(s, lo) ELSE "")
  ELSE RemoveBoldRange(s, lo, (lo + hi) \div 2) \o RemoveBoldRange(s, (lo + hi) \div 2 + 1, hi)

RemoveBold(s) == RemoveBoldRange(s, 1, Len(s))

\* the three clean-up steps at the head of extract_requirement_lines, per line
NormalizeLine(s) == RemoveBold(Nfkc(RemoveNul(s)))

(***************************************************************************)
(* extract_requirement_lines: the three patterns, the primary scan, the    *)
(* fallback scan and the de-duplication.  The patterns are applied to a    *)
(* line that str.strip() has already trimmed.                              *)
(***************************************************************************)
\* the position after the run of digits that starts at i
RECURSIVE DigitsEnd(_, _)
DigitsEnd(s, i) ==
  IF i <= Len(s) /\ IsDigit(Char(s, i)) THEN DigitsEnd(s, i + 1) ELSE i

\* section_re = ^\s*(\d+)\.\s*(.+?)\s*$
SectionMatch(line) ==
  LET e == DigitsEnd(line, 1)
  IN  /\ e > 1
      /\ Char(line, e) = "."
      /\ Strip(SubSeq(line, e + 1, Len(line))) # ""

\* m.group(2) of section_re
SectionGroup(line) == Strip(SubSeq(line, DigitsEnd(line, 1) + 1, Len(line)))

\* bullet_re = ^\s*-\s+(.*\S)\s*$
BulletMatch(line) ==
  /\ Char(line, 1) = "-"
  /\ IsSpace(Char(line, 2))
  /\ Strip(SubSeq(line, 2, Len(line))) # ""

\* mb.group(1) of bullet_re
BulletGroup(line) == Strip(SubSeq(line, 2, Len(line)))

\* the alternatives of strip_tag, compared ignoring case (re.I)
TagNames == {"[bug]", "[feature]", "[other]"}

\* a tag stripper that takes any bracketed run of letters at the end for a tag
StripAnyTag(s) ==
  LET t     == RStrip(s)
      opens == {i \in 1..Len(t) : Char(t, i) = "["}
      o     == IF opens = {} THEN 0 ELSE CHOOSE i \in opens : \A j \in opens : j <= i
      isTag == /\ o > 0
               /\ Char(t, Len(t)) = "]"
               /\ Len(t) - o >= 2
               /\ \A i \in (o + 1)..(Len(t) - 1) :
                    LowerChar(Char(t, i)) \in {Char(LowerLetters, j) : j \in 1..26}
  IN  IF isTag THEN RStrip(SubSeq(t, 1, o - 1)) ELSE s

\* strip_tag.sub("", s), strip_tag = \s*\[(?:Bug|Feature|Other)\]\s*$
StripTag(s) ==
  LET t    == RStrip(s)
      low  == Lower(t)
      hits == {g \in TagNames : EndsWith(low, g)}
  IN  IF hits = {} THEN s
      ELSE LET g == CHOOSE h \in hits : TRUE
           IN  RStrip(SubSeq(t, 1, Len(t) - Len(g)))

\* the candidate a bullet line yields (lines 184-185)
BulletItem(line) == CollapseWs(Strip(StripTag(BulletGroup(line))))

NoSection == ""

\* one pass of the loop at lines 169-187 over one raw line
PrimaryStep(st, rawline) ==
  LET line == Strip(rawline)
  IN  IF line = "" THEN st
      ELSE IF SectionMatch(line)
           THEN [section |-> Lower(Strip(SectionGroup(line))), reqs |-> st.reqs]
      ELSE IF st.section # NoSection /\ Contains(st.section, "functional requirements")
           THEN IF BulletMatch(line)
                THEN LET item == BulletItem(line)
                     IN  IF item # "" THEN [section |-> st.section, reqs |-> Append(st.reqs, item)]
                         ELSE st
                ELSE st
      ELSE st

RECURSIVE PrimaryScan(_, _)
\* the loop at lines 169-187 over the first k lines
PrimaryScan(ls, k) ==
  IF k = 0 THEN [section |-> NoSection, reqs |-> <<>>]
  ELSE PrimaryStep(PrimaryScan(ls, k - 1), ls[k])

RECURSIVE GroupsEnd(_, _)
\* the position after the run of (\.\d+) groups that starts at i
GroupsEnd(s, i) ==
  IF Char(s, i) = "." /\ IsDigit(Char(s, i + 1))
  THEN GroupsEnd(s, DigitsEnd(s, i + 1))
  ELSE i

\* the position after \d+(?:\.\d+)+\.? , or 0 when the prefix is absent
NumberedPrefixEnd(s) ==
  LET e1 == DigitsEnd(s, 1)
      e2 == GroupsEnd(s, e1)
  IN  IF e1 > 1 /\ e2 > e1
      THEN (IF Char(s, e2) = "." THEN e2 + 1 ELSE e2)
      ELSE 0

\* re.match(r"^\s*\d+(?:\.\d+)+\.?\s+(.*\S)$", line)
NumberedMatch(line) ==
  LET e == NumberedPrefixEnd(line)
  IN  /\ e > 0
      /\ IsSpace(Char(line, e))
      /\ Strip(SubSeq(line, e, Len(line))) # ""

\* m.group(1) of the fallback pattern
NumberedGroup(line) == Strip(SubSeq(line, NumberedPrefixEnd(line), Len(line)))

RECURSIVE FallbackScan(_, _)
\* the loop at lines 192-196 over the first k lines
FallbackScan(ls, k) ==
  IF k = 0 THEN <<>>
  ELSE LET line == Strip(ls[k])
           rest == FallbackScan(ls, k - 1)
       IN  IF NumberedMatch(line) THEN Append(rest, CollapseWs(NumberedGroup(line)))
           ELSE rest

RECURSIVE DedupFrom(_, _, _)
\* the de-duplication loop (lines 201-206, 242-247 without the cap)
DedupFrom(rs, i, seen) ==
  IF i > Len(rs) THEN <<>>
  ELSE IF Lower(rs[i]) \in seen THEN DedupFrom(rs, i + 1, seen)
       ELSE <<rs[i]>> \o DedupFrom(rs, i + 1, seen \cup {Lower(rs[i])})

RECURSIVE DedupExactFrom(_, _, _)
DedupExactFrom(rs, i, seen) ==
  IF i > Len(rs) THEN <<>>
  ELSE IF rs[i] \in seen THEN DedupExactFrom(rs, i + 1, seen)
       ELSE <<rs[i]>> \o DedupExactFrom(rs, i + 1, seen \cup {rs[i]})

\* the de-duplication with the key's lower() left out
DedupCaseSensitive(rs) == DedupExactFrom(rs, 1, {})

DedupCI(rs) == DedupFrom(rs, 1, {})

\* s.splitlines() of the cleaned text
CleanLines(doc) == [i \in 1..Len(doc) |-> NormalizeLine(doc[i])]

\* the fallback's lines taken in whether or not the primary scan found any
CandidatesMerged(doc) ==
  LET ls == CleanLines(doc)
  IN  PrimaryScan(ls, Len(ls)).reqs \o FallbackScan(ls, Len(ls))

\* reqs as it stands before the de-duplication (line 199)
Candidates(doc) ==
  LET ls      == CleanLines(doc)
      primary == PrimaryScan(ls, Len(ls)).reqs
  IN  IF primary # <<>> THEN primary ELSE FallbackScan(ls, Len(ls))

extract_requirement_lines(doc) == DedupCI(Candidates(doc))

(***************************************************************************)
(* srs_to_user_stories: the reply's parsing, the de-duplication and the    *)
(* cap.                                                                    *)
(***************************************************************************)
MaxStoryLen == 280

DefaultMaxStories == 50

\* the class [\d\.\-\)\(\s*] of the list-marker pattern, on the model's alphabet
IsMarker(c) == IsDigit(c) \/ IsSpace(c) \/ c \in {".", "-", ")", "(", "*"}

\* re.sub(r"^[\d\.\-\)\(\s*]+", "", ln)
RECURSIVE SkipMarkers(_, _)
SkipMarkers(ln, i) ==
  IF i <= Len(ln) /\ IsMarker(Char(ln, i)) THEN SkipMarkers(ln, i + 1) ELSE i

StripMarkers(ln) == SubSeq(ln, SkipMarkers(ln, 1), Len(ln))

\* the test of line 238
IsStory(ln) == StartsWith(Lower(ln), "as a ") /\ Contains(Lower(ln), " i want ")

\* " ".join(ln.split())[:280]
StoryOf(ln) ==
  LET c == CollapseWs(ln)
  IN  IF Len(c) > MaxStoryLen THEN SubSeq(c, 1, MaxStoryLen) ELSE c

\* line 234 and one pass of the loop of lines 236-239: the story a line of
\* the reply yields, if any
StoriesOfLine(rawline) ==
  LET ln == StripMarkers(Strip(rawline))
  IN  IF Strip(rawline) # "" /\ IsStory(ln) THEN <<StoryOf(ln)>> ELSE <<>>

RECURSIVE ParseRange(_, _, _)
\* lines 234-239 over lines lo..hi of the reply, in order (the range is
\* halved to keep the evaluation shallow on long replies)
ParseRange(reply, lo, hi) ==
  IF lo > hi THEN <<>>
  ELSE IF lo = hi THEN StoriesOfLine(reply[lo])
  ELSE ParseRange(reply, lo, (lo + hi) \div 2) \o ParseRange(reply, (lo + hi) \div 2 + 1, hi)

ParseStories(reply) == ParseRange(reply, 1, Len(reply))

\* one pass of the loop of lines 243-249; stopped is the break of line 249
CapStep(st, story, cap) ==
  IF st.stopped THEN st
  ELSE LET k    == Lower(story)
           out2 == IF k \in st.seen THEN st.out ELSE Append(st.out, story)
       IN  [seen |-> st.seen \cup {k}, out |-> out2, stopped |-> Len(out2) >= cap]

RECURSIVE CapFold(_, _, _, _, _)
\* the loop of lines 243-249 over stories lo..hi, from the loop state st (the
\* range is halved to keep the evaluation shallow; once the loop has broken
\* out, the rest is not visited)
CapFold(stories, lo, hi, st, cap) ==
  IF lo > hi THEN st
  ELSE IF lo = hi THEN CapStep(st, stories[lo], cap)
  ELSE LET left == CapFold(stories, lo, (lo + hi) \div 2, st, cap)
       IN  IF left.stopped THEN left
           ELSE CapFold(stories, (lo + hi) \div 2 + 1, hi, left, cap)

DedupAndCap(stories, cap) ==
  CapFold(stories, 1, Len(stories), [seen |-> {}, out |-> <<>>, stopped |-> FALSE], cap).out

\* what srs_to_user_stories returns once _ask has returned reply
StoriesFromReply(reply, cap) == DedupAndCap(ParseStories(reply), cap)

(***************************************************************************)
(* jira_client.create_issue and main.labels_for_item.                      *)
(***************************************************************************)
MaxSummaryLen == 255

\* the parameters create_issue declares (line 31)
CreateIssueParams == {"summary", "description", "labels"}

\* _clean_text(text)
CleanText(text) == Strip(RemoveNul(text))

\* what the tracker may do with one request
TrackerOutcomes == {"created", "rejected", "transport"}

\* create_issue called with the keyword arguments kwargs: what the call did
\* (raised, or returned a dict with or without "key") and whether a request
\* was sent to the tracker
CreateIssue(kwargs, summary, outcome) ==
  LET clean == CleanText(summary)
      short == IF Len(clean) > MaxSummaryLen THEN SubSeq(clean, 1, MaxSummaryLen) ELSE clean
      none  == [raised |-> FALSE, sent |-> FALSE, has_key |-> FALSE, key |-> "",
                summary |-> "", error |-> ""]
  IN  IF ~(kwargs \subseteq CreateIssueParams)
      THEN [none EXCEPT !.raised = TRUE,
                        !.error = "create_issue() got an unexpected keyword argument"]
      ELSE IF ~jira_env
      THEN [none EXCEPT !.raised = TRUE,
                        !.error = "Missing one or more Jira environment variables."]
      ELSE IF outcome = "transport"
      THEN [none EXCEPT !.raised = TRUE, !.sent = TRUE, !.error = "ConnectionError"]
      ELSE IF outcome = "created"
      THEN [none EXCEPT !.sent = TRUE, !.has_key = TRUE, !.key = "REQ-1", !.summary = short]
      ELSE [none EXCEPT !.sent = TRUE, !.error = "Jira 400: rejected"]

\* subtype.lower().replace(' ', '-')
RECURSIVE DashSpaces(_)
DashSpaces(s) ==
  IF Len(s) <= 1 THEN (IF s = " " THEN "-" ELSE s)
  ELSE DashSpaces(SubSeq(s, 1, Len(s) \div 2)) \o DashSpaces(SubSeq(s, Len(s) \div 2 + 1, Len(s)))

labels_for_item(kind, subtype) ==
  LET k == Lower(kind)
  IN  IF k = "bug" THEN <<"bug">>
      ELSE IF k \in {"feature", "fr", "functional requirement"} THEN <<"feature">>
      ELSE IF k \in {"nfr", "non-functional requirement"}
           THEN IF subtype # "" THEN <<"nfr", "nfr-" \o DashSpaces(Lower(subtype))>>
                ELSE <<"nfr">>
      ELSE <<"other">>

HasLabel(labs, l) == \E i \in 1..Len(labs) : labs[i] = l

\* the summary prefix of line 189
PrefixOf(labs) ==
  IF HasLabel(labs, "bug") THEN "[BUG]"
  ELSE IF HasLabel(labs, "nfr") THEN "[NFR]" ELSE "[FEATURE]"

\* classify_feedback's mapping of the model's reply to a label (lines 111-119)
ClassifyLabel(reply) ==
  LET low == Strip(Lower(reply))
  IN  IF StartsWith(low, "bug report") \/ StartsWith(low, "bug") THEN "Bug"
      ELSE IF StartsWith(low, "feature request") \/ StartsWith(low, "feature") THEN "Feature"
      ELSE "Other"

MinReviewLen == 3

RECURSIVE KeptLines(_, _)
\* line 63-64 over the first k lines of the decoded upload
KeptLines(content, k) ==
  IF k = 0 THEN <<>>
  ELSE LET l == Strip(RemoveNul(content[k]))
       IN  IF Len(l) >= MinReviewLen THEN Append(KeptLines(content, k - 1), l)
           ELSE KeptLines(content, k - 1)

MaxBatchItems == 10

(***************************************************************************)
(* The inputs: the documents, replies, uploads and batches the operations  *)
(* are run on.                                                             *)
(***************************************************************************)
MaxDocLines == 3

MaxReplyLines == 2

MaxCapArg == 2

MaxUploadLines == 2

MaxBatch == 2

ManyStories == 60

LongPad == 300

SeqsUpTo(S, n) == UNION {[1..k -> S] : k \in 0..n}

FRHeading == "3. Functional Requirements"

NFRHeading == "4. Non-Functional Requirements"

DocLinePool ==
  { FRHeading, NFRHeading,
    "- Add login", "- add LOGIN", "-  Export   data [Bug]",
    "2.3. Support offline mode", "2.3.  support OFFLINE mode", "1.1 Foo" }

\* documents with other lines: a heading of another section, blank lines,
\* emphasis marks, NUL and NO-BREAK SPACE, other tags, a bullet that is only
\* a tag, numbering with no space after it
ExtraDocs ==
  { <<FRHeading, "- Add login", "5. System Features", "- Export data">>,
    <<FRHeading, "", "- Add login", "", "- add LOGIN">>,
    <<"**3. Functional_Requirements**@", "-_Add  login_[feature]">>,
    <<"  3.Functional Requirements", "\t- Add login [Other] [Bug]", "-Add logout", "- ">>,
    <<FRHeading, "- Sync [NFR]", "- [Bug]">>,
    <<FRHeading, "- [Bug]", "1.1.Foo", "2.3.4 Bar  baz">>,
    <<"Overview", "1.1.Foo", "2.">>,
    <<"Overview", "- Add login">> }

Docs == SeqsUpTo(DocLinePool, MaxDocLines) \cup ExtraDocs

\* the documents the story synthesizer is run on
SrsDocs ==
  { <<>>,
    <<"Overview">>,
    <<FRHeading, "- Add login", "- add LOGIN">>,
    <<FRHeading, "- Add login", "", "-  Export   data [Bug]">>,
    <<"2.3. Support offline mode">> }

\* the payloads of /stories/generate: srs_document absent, or present
StoryPayloads ==
  {[kind |-> "stories", present |-> FALSE, srs_document |-> <<>>]}
    \cup {[kind |-> "stories", present |-> TRUE, srs_document |-> d] : d \in SrsDocs}

CapArgs == 0..MaxCapArg \cup {DefaultMaxStories}

Digits == "0123456789"

RECURSIVE NumStr(_)
NumStr(n) == IF n < 10 THEN Char(Digits, n + 1)
             ELSE NumStr(n \div 10) \o Char(Digits, (n % 10) + 1)

RECURSIVE Pad(_)
\* n letters
Pad(n) == IF n = 0 THEN "" ELSE IF n = 1 THEN "x"
          ELSE Pad(n \div 2) \o Pad(n - n \div 2)

\* a numbered list of distinct conforming stories
NumberedStories(n) == [k \in 1..n |-> NumStr(k) \o ". As a user, I want item " \o NumStr(k)]

\* a conforming line whose " I want " lies beyond the length cap
LongHead == "As a " \o Pad(LongPad) \o " I want less"

\* a conforming line longer than the length cap whose " I want " lies within it
LongTail == "2. As a user, I want " \o Pad(LongPad)

ReplyLinePool ==
  { "1. As a user, I want dark mode", "3) AS A USER, I WANT DARK MODE",
    "-  As a dev,  I want   logs", "2. As a admin, I want audit",
    "I want dark mode" }

Replies ==
  SeqsUpTo(ReplyLinePool, MaxReplyLines)
    \cup { NumberedStories(ManyStories), <<LongTail>>,
           <<"1. As a user, I want dark mode", "", LongHead>>,
           <<"Sure, here are the stories:", "", "  * As a user, I want dark mode  ">> }

UploadNames == {"reviews.txt", "reviews.pdf"}

UploadLinePool == {"app crashes", "ok", " @add dark mode ", ""}

Uploads == SeqsUpTo(UploadLinePool, MaxUploadLines)

ClassifyReplies == {"Bug Report", "feature request", "Some unrelated text"}

SrsReplies == {<<FRHeading, "- Add login">>, <<>>}

\* an item of a /jira batch; text is the field the handler reads the summary
\* from ("review" or "user_story")
ItemPool ==
  { [text |-> "Add login", classification |-> "Feature", subtype |-> "", reasoning |-> ""],
    [text |-> "  Crash on start ", classification |-> "Bug", subtype |-> "", reasoning |-> "crashes"],
    [text |-> "Slow sync", classification |-> "NFR", subtype |-> "Load Time", reasoning |-> ""],
    [text |-> "", classification |-> "Feature", subtype |-> "", reasoning |-> ""] }

GoodItem == [text |-> "Add login", classification |-> "Feature", subtype |-> "", reasoning |-> ""]

EmptyItem == [text |-> "", classification |-> "Feature", subtype |-> "", reasoning |-> ""]

\* batches of up to MaxBatch items, one of exactly the most allowed and one
\* of one more
Batches ==
  SeqsUpTo(ItemPool, MaxBatch)
    \cup { [i \in 1..MaxBatchItems |-> IF i % 4 = 1 THEN GoodItem ELSE EmptyItem],
           [i \in 1..(MaxBatchItems + 1) |-> GoodItem] }

(***************************************************************************)
(* The state machine.  An operation starts when nothing runs (pc = "idle"),*)
(* stops at each blocking call of the model backend until the reply or the *)
(* failure arrives, and ends in pc = "done"; Respond hands the result back *)
(* and drops the operation's state.                                        *)
(***************************************************************************)
NoPayload == [kind |-> "none"]

NoResponse == [kind |-> "none", detail |-> ""]

Ok == [kind |-> "ok", detail |-> ""]

\* raise HTTPException(400, detail)
HttpError(detail) == [kind |-> "http_error", detail |-> detail]

\* return {"error": detail}
ErrorBody(detail) == [kind |-> "error_body", detail |-> detail]

\* an exception nobody catches leaves the handler
Raised(detail) == [kind |-> "exception", detail |-> detail]

Init ==
  /\ pc = "idle"
  /\ op = "none"
  /\ srs_text = <<>>
  /\ max_stories = DefaultMaxStories
  /\ req_lines = <<>>
  /\ raw = <<>>
  /\ out = <<>>
  /\ payload = NoPayload
  /\ lines = <<>>
  /\ classifications = <<>>
  /\ items = <<>>
  /\ idx = 0
  /\ created = <<>>
  /\ failed = <<>>
  /\ response = NoResponse
  /\ askCalls = 0
  /\ jiraCalls = 0
  /\ jira_env \in BOOLEAN

StoryVars == <<srs_text, max_stories, req_lines, raw, out>>

UploadVars == <<lines, classifications>>

BatchVars == <<items, created, failed>>

\* extract_requirement_lines(doc), called on its own
CallExtract(doc) ==
  /\ pc = "idle"
  /\ op' = "extract_requirement_lines"
  /\ payload' = NoPayload
  /\ srs_text' = doc
  /\ out' = extract_requirement_lines(doc)
  /\ response' = Ok
  /\ pc' = "done"
  /\ UNCHANGED <<max_stories, req_lines, raw, idx, askCalls, jiraCalls, jira_env>>
  /\ UNCHANGED UploadVars
  /\ UNCHANGED BatchVars

\* srs_to_user_stories(doc, cap) with the early return of lines 216-217 left out
StartStoriesAlwaysAsks(doc, cap) ==
  /\ srs_text' = doc
  /\ max_stories' = cap
  /\ req_lines' = extract_requirement_lines(doc)
  /\ out' = <<>>
  /\ raw' = <<>>
  /\ pc' = "asking"
  /\ response' = NoResponse
  /\ askCalls' = askCalls + 1
  /\ UNCHANGED <<idx, jiraCalls, jira_env>>
  /\ UNCHANGED UploadVars
  /\ UNCHANGED BatchVars

\* srs_to_user_stories up to its call of _ask (lines 215-231)
StartStories(doc, cap) ==
  /\ srs_text' = doc
  /\ max_stories' = cap
  /\ req_lines' = extract_requirement_lines(doc)
  /\ out' = <<>>
  /\ raw' = <<>>
  /\ IF req_lines' = <<>>
     THEN /\ pc' = "done"
          /\ response' = Ok
          /\ askCalls' = askCalls
     ELSE /\ pc' = "asking"
          /\ response' = NoResponse
          /\ askCalls' = askCalls + 1
  /\ UNCHANGED <<idx, jiraCalls, jira_env>>
  /\ UNCHANGED UploadVars
  /\ UNCHANGED BatchVars

\* srs_to_user_stories(doc, cap), called on its own
CallStories(doc, cap) ==
  /\ pc = "idle"
  /\ op' = "srs_to_user_stories"
  /\ payload' = NoPayload
  /\ StartStories(doc, cap)

\* POST /stories/generate
generate_stories(pl) ==
  /\ pc = "idle"
  /\ op' = "generate_stories"
  /\ payload' = pl
  /\ IF ~pl.present \/ pl.srs_document = <<>>
     THEN /\ response' = ErrorBody("Missing srs_document")
          /\ pc' = "done"
          /\ UNCHANGED <<idx, askCalls, jiraCalls, jira_env>>
          /\ UNCHANGED StoryVars
          /\ UNCHANGED UploadVars
          /\ UNCHANGED BatchVars
     ELSE StartStories(pl.srs_document, DefaultMaxStories)

\* _ask returns the reply to srs_to_user_stories (lines 233-250)
AskReturnsStories(reply) ==
  /\ pc = "asking"
  /\ raw' = reply
  /\ out' = StoriesFromReply(reply, max_stories)
  /\ response' = Ok
  /\ pc' = "done"
  /\ UNCHANGED <<op, payload, srs_text, max_stories, req_lines, idx, askCalls, jiraCalls, jira_env>>
  /\ UNCHANGED UploadVars
  /\ UNCHANGED BatchVars

\* _ask raises (a timeout, raise_for_status): nothing catches it
AskFails ==
  /\ pc \in {"asking", "classifying", "generating"}
  /\ response' = Raised("model backend failure")
  /\ pc' = "done"
  /\ UNCHANGED <<op, payload, idx, askCalls, jiraCalls, jira_env>>
  /\ UNCHANGED StoryVars
  /\ UNCHANGED UploadVars
  /\ UNCHANGED BatchVars

\* POST /process up to the first classify_feedback call (lines 45-72)
process_txt(name, content) ==
  /\ pc = "idle"
  /\ op' = "process_txt"
  /\ payload' = [kind |-> "upload", filename |-> name, content |-> content]
  /\ classifications' = <<>>
  /\ IF ~EndsWith(name, ".txt")
     THEN /\ response' = HttpError("Please upload a .txt file")
          /\ pc' = "done"
          /\ UNCHANGED <<lines, idx, askCalls>>
     ELSE /\ lines' = KeptLines(content, Len(content))
          /\ IF KeptLines(content, Len(content)) = <<>>
             THEN /\ response' = HttpError("No reviews found in file")
                  /\ pc' = "done"
                  /\ UNCHANGED <<idx, askCalls>>
             ELSE /\ response' = NoResponse
                  /\ pc' = "classifying"
                  /\ idx' = 1
                  /\ askCalls' = askCalls + 1
  /\ UNCHANGED <<jiraCalls, jira_env>>
  /\ UNCHANGED StoryVars
  /\ UNCHANGED BatchVars

\* _ask returns to classify_feedback; the loop of lines 71-78 goes on to the
\* next line's call or to generate_srs's call
AskReturnsLabel(reply) ==
  /\ pc = "classifying"
  /\ classifications' = Append(classifications,
       [review |-> lines[idx], classification |-> ClassifyLabel(reply), reasoning |-> lines[idx]])
  /\ IF idx < Len(lines)
     THEN idx' = idx + 1 /\ pc' = "classifying"
     ELSE idx' = idx /\ pc' = "generating"
  /\ askCalls' = askCalls + 1
  /\ UNCHANGED <<op, payload, lines, response, jiraCalls, jira_env>>
  /\ UNCHANGED StoryVars
  /\ UNCHANGED BatchVars

\* _ask returns the document to generate_srs; /process returns (lines 80-88)
AskReturnsSrs(doc) ==
  /\ pc = "generating"
  /\ srs_text' = doc
  /\ response' = Ok
  /\ pc' = "done"
  /\ UNCHANGED <<op, payload, max_stories, req_lines, raw, out, idx, askCalls, jiraCalls, jira_env>>
  /\ UNCHANGED UploadVars
  /\ UNCHANGED BatchVars

\* a batch handler takes its batch and enters its loop
StartBatch(batch) ==
  /\ items' = batch
  /\ created' = <<>>
  /\ failed' = <<>>
  /\ IF batch = <<>>
     THEN pc' = "done" /\ response' = Ok /\ idx' = idx
     ELSE pc' = "sending" /\ response' = NoResponse /\ idx' = 1
  /\ UNCHANGED <<askCalls, jiraCalls, jira_env>>
  /\ UNCHANGED StoryVars
  /\ UNCHANGED UploadVars

\* the checks of lines 143-146 and 173-176
RejectBatch(batch, what) ==
  /\ pc' = "done"
  /\ response' = IF batch = <<>> THEN ErrorBody("No " \o what \o " provided")
                 ELSE ErrorBody("Cannot send more than 10 " \o what \o " at once")
  /\ UNCHANGED <<idx, askCalls, jiraCalls, jira_env>>
  /\ UNCHANGED StoryVars
  /\ UNCHANGED UploadVars
  /\ UNCHANGED BatchVars

\* POST /jira/create (lines 98-108): no check of the batch's size
jira_create(batch) ==
  /\ pc = "idle"
  /\ op' = "jira_create"
  /\ payload' = [kind |-> "batch", batch |-> batch]
  /\ StartBatch(batch)

\* POST /jira/send-selected (lines 136-148)
jira_send_selected(batch) ==
  /\ pc = "idle"
  /\ op' = "jira_send_selected"
  /\ payload' = [kind |-> "batch", batch |-> batch]
  /\ IF batch = <<>> \/ Len(batch) > MaxBatchItems
     THEN RejectBatch(batch, "stories")
     ELSE StartBatch(batch)

\* the handler with the checks of lines 173-176 left out
SendClassificationsUnchecked(batch) ==
  /\ pc = "idle"
  /\ op' = "jira_send_selected_classifications"
  /\ payload' = [kind |-> "batch", batch |-> batch]
  /\ StartBatch(batch)

\* POST /jira/send-selected-classifications (lines 164-178)
jira_send_selected_classifications(batch) ==
  /\ pc = "idle"
  /\ op' = "jira_send_selected_classifications"
  /\ payload' = [kind |-> "batch", batch |-> batch]
  /\ IF batch = <<>> \/ Len(batch) > MaxBatchItems
     THEN RejectBatch(batch, "items")
     ELSE StartBatch(batch)

\* the loop goes to the next item, or the handler returns its two lists
NextItem ==
  /\ IF idx < Len(items)
     THEN idx' = idx + 1 /\ pc' = "sending" /\ response' = response
     ELSE idx' = idx /\ pc' = "done" /\ response' = Ok

\* an exception leaves the loop and the handler
Abort(detail) ==
  /\ response' = Raised(detail)
  /\ pc' = "done"
  /\ UNCHANGED <<idx, created, failed>>

LoopFrame ==
  /\ UNCHANGED <<op, payload, items, askCalls, jira_env>>
  /\ UNCHANGED StoryVars
  /\ UNCHANGED UploadVars

\* one pass of /jira/create's loop (lines 101-107): the call's exception is caught
jira_create_item(outcome) ==
  /\ pc = "sending"
  /\ op = "jira_create"
  /\ LET it  == items[idx]
         res == CreateIssue({"summary", "description", "issuetype"}, it.text, outcome)
     IN  /\ jiraCalls' = jiraCalls + (IF res.sent THEN 1 ELSE 0)
         /\ IF res.raised
            THEN /\ failed' = Append(failed, [title |-> it.text, error |-> res.error])
                 /\ created' = created
            ELSE /\ created' = Append(created, [key |-> res.key, summary |-> it.text])
                 /\ failed' = failed
         /\ NextItem
  /\ LoopFrame

\* one pass of /jira/send-selected's loop (lines 149-159)
jira_send_selected_item(outcome) ==
  /\ pc = "sending"
  /\ op = "jira_send_selected"
  /\ LET story == Strip(items[idx].text)
         res   == CreateIssue({"summary", "description", "classification"}, story, outcome)
     IN  IF story = ""
         THEN /\ failed' = Append(failed, [title |-> "", error |-> "Empty story"])
              /\ created' = created
              /\ jiraCalls' = jiraCalls
              /\ NextItem
         ELSE /\ jiraCalls' = jiraCalls + (IF res.sent THEN 1 ELSE 0)
              /\ IF res.raised THEN Abort(res.error)
                 ELSE /\ IF res.has_key
                         THEN /\ created' = Append(created, [key |-> res.key, summary |-> res.summary])
                              /\ failed' = failed
                         ELSE /\ failed' = Append(failed, [title |-> story, error |-> res.error])
                              /\ created' = created
                      /\ NextItem
  /\ LoopFrame

\* one pass of /jira/send-selected-classifications's loop (lines 179-195)
jira_send_selected_classifications_item(outcome) ==
  /\ pc = "sending"
  /\ op = "jira_send_selected_classifications"
  /\ LET it      == items[idx]
         summary == Strip(it.text)
         kind    == IF it.classification # "" THEN it.classification ELSE "Feature"
         labels  == labels_for_item(kind, it.subtype)
         res     == CreateIssue({"summary", "description", "labels"},
                                PrefixOf(labels) \o " " \o summary, outcome)
     IN  IF summary = ""
         THEN /\ failed' = Append(failed, [title |-> "", error |-> "Empty review"])
              /\ created' = created
              /\ jiraCalls' = jiraCalls
              /\ NextItem
         ELSE /\ jiraCalls' = jiraCalls + (IF res.sent THEN 1 ELSE 0)
              /\ IF res.raised THEN Abort(res.error)
                 ELSE /\ IF res.has_key
                         THEN /\ created' = Append(created, [key |-> res.key, summary |-> res.summary])
                              /\ failed' = failed
                         ELSE /\ failed' = Append(failed, [title |-> summary, error |-> res.error])
                              /\ created' = created
                      /\ NextItem
  /\ LoopFrame

\* the result goes back to the caller; nothing of the operation is kept
Respond ==
  /\ pc = "done"
  /\ pc' = "idle"
  /\ op' = "none"
  /\ srs_text' = <<>>
  /\ max_stories' = DefaultMaxStories
  /\ req_lines' = <<>>
  /\ raw' = <<>>
  /\ out' = <<>>
  /\ payload' = NoPayload
  /\ lines' = <<>>
  /\ classifications' = <<>>
  /\ items' = <<>>
  /\ idx' = 0
  /\ created' = <<>>
  /\ failed' = <<>>
  /\ response' = NoResponse
  /\ askCalls' = 0
  /\ jiraCalls' = 0
  /\ UNCHANGED jira_env

Next ==
  \/ \E doc \in Docs : CallExtract(doc)
  \/ \E doc \in SrsDocs, cap \in CapArgs : CallStories(doc, cap)
  \/ \E pl \in StoryPayloads : generate_stories(pl)
  \/ \E reply \in Replies : AskReturnsStories(reply)
  \/ AskFails
  \/ \E name \in UploadNames, content \in Uploads : process_txt(name, content)
  \/ \E reply \in ClassifyReplies : AskReturnsLabel(reply)
  \/ \E doc \in SrsReplies : AskReturnsSrs(doc)
  \/ \E batch \in Batches : jira_create(batch)
  \/ \E batch \in Batches : jira_send_selected(batch)
  \/ \E batch \in Batches : jira_send_selected_classifications(batch)
  \/ \E outcome \in TrackerOutcomes : jira_create_item(outcome)
  \/ \E outcome \in TrackerOutcomes : jira_send_selected_item(outcome)
  \/ \E outcome \in TrackerOutcomes : jira_send_selected_classifications_item(outcome)
  \/ Respond

Spec == Init /\ [][Next]_vars

(***************************************************************************)
(* The claims.  The vocabulary they share comes first.                     *)
(***************************************************************************)
\* extract_requirement_lines has returned out for the document srs_text
ExtractDone == pc = "done" /\ op = "extract_requirement_lines"

StoryOps == {"srs_to_user_stories", "generate_stories"}

\* srs_to_user_stories has run to its end and returned out
StoriesReturned == pc = "done" /\ op \in StoryOps /\ response.kind = "ok"

\* the document's lines as the scans see them: cleaned and trimmed
ScanLines == [i \in 1..Len(srs_text) |-> Strip(NormalizeLine(srs_text[i]))]

IsHeadingAt(ls, i) == ls[i] # "" /\ SectionMatch(ls[i])

IsBulletAt(ls, i) == ls[i] # "" /\ ~SectionMatch(ls[i]) /\ BulletMatch(ls[i])

\* the position of the last heading before line i, 0 when there is none
HeadingBefore(ls, i) ==
  LET hs == {j \in 1..(i - 1) : IsHeadingAt(ls, j)}
  IN  IF hs = {} THEN 0 ELSE CHOOSE j \in hs : \A h \in hs : h <= j

\* line i is a bullet whose most recent heading is "3. Functional Requirements"
UnderFR(ls, i) ==
  /\ IsBulletAt(ls, i)
  /\ HeadingBefore(ls, i) > 0
  /\ ls[HeadingBefore(ls, i)] = FRHeading

\* line i is a bullet whose most recent heading is a "4. Non-Functional
\* Requirements" that comes after a "3. Functional Requirements"
UnderLaterNFR(ls, i) ==
  /\ IsBulletAt(ls, i)
  /\ HeadingBefore(ls, i) > 0
  /\ ls[HeadingBefore(ls, i)] = NFRHeading
  /\ \E j \in 1..(HeadingBefore(ls, i) - 1) : ls[j] = FRHeading

\* text is in the returned list, ignoring case
Returned(text) == \E k \in 1..Len(out) : Lower(out[k]) = Lower(text)

\* C1: a bullet after a "3. Functional Requirements" heading and before the
\* next numbered heading is captured (its text is in the returned list), and
\* a bullet whose most recent heading is a later "4. Non-Functional
\* Requirements" is not, unless the same text was captured under the
\* Functional Requirements heading.
C1_HeadingStickiness ==
  ExtractDone =>
    LET ls == ScanLines
    IN  \A i \in 1..Len(ls) :
          /\ (UnderFR(ls, i) /\ BulletItem(ls[i]) # "") => Returned(BulletItem(ls[i]))
          /\ (UnderLaterNFR(ls, i) /\ Returned(BulletItem(ls[i])))
               => \E j \in 1..Len(ls) :
                     UnderFR(ls, j) /\ Lower(BulletItem(ls[j])) = Lower(BulletItem(ls[i]))

StoriesRun == op \in StoryOps /\ pc \in {"asking", "done"} /\ response.kind # "error_body"

\* C3: a run of srs_to_user_stories makes no call of the model backend and
\* returns the empty list when the extractor yields no requirement, and
\* exactly one call, never a second, when it yields at least one.
C3_OneModelCall ==
  StoriesRun =>
    IF extract_requirement_lines(srs_text) = <<>>
    THEN askCalls = 0 /\ pc = "done" /\ response.kind = "ok" /\ out = <<>>
    ELSE askCalls = 1

C3_Witness ==
  /\ StoriesReturned
  /\ extract_requirement_lines(srs_text) # <<>>
  /\ askCalls = 1
  /\ out # <<>>

BatchOps == {"jira_create", "jira_send_selected", "jira_send_selected_classifications"}

\* the items of the batch whose summary is not empty
WellFormed(batch) == {i \in 1..Len(batch) : Strip(batch[i].text) # ""}

\* C4: a batch handler given 1..10 items runs to the end of the batch: it
\* returns its two lists, every item is in exactly one of them, no item with
\* an empty summary is in "created", and every "failed" entry carries a
\* non-empty error message.
C4_BatchIsolation ==
  (pc = "done" /\ op \in BatchOps /\ Len(payload.batch) \in 1..MaxBatchItems) =>
    /\ response.kind = "ok"
    /\ Len(created) + Len(failed) = Len(payload.batch)
    /\ Len(created) <= Cardinality(WellFormed(payload.batch))
    /\ \A k \in 1..Len(failed) : failed[k].error # ""

\* the first n entries of a sequence
FirstN(seq, n) == SubSeq(seq, 1, IF n < Len(seq) THEN n ELSE Len(seq))

\* C5: srs_to_user_stories returns exactly the first min(M, D) entries, in
\* order, of the case-insensitively de-duplicated conforming reply lines (D
\* their number), for every cap M >= 0; so never more than M entries, and
\* exactly the first 50 of 60 distinct conforming lines when M = 50.
C5_CapAndOrder ==
  StoriesReturned =>
    /\ out = FirstN(DedupCI(ParseStories(raw)), max_stories)
    /\ Len(out) <= max_stories

\* the position of the first candidate equal to text ignoring case, 0 if none
FirstOcc(c, text) ==
  LET hits == {i \in 1..Len(c) : Lower(c[i]) = Lower(text)}
  IN  IF hits = {} THEN 0 ELSE CHOOSE i \in hits : \A h \in hits : i <= h

\* C6: the list extract_requirement_lines returns is its candidates
\* de-duplicated ignoring case: no two entries are equal ignoring case, every
\* candidate's class is there, each entry is spelled as the first candidate of
\* its class, and the entries stand in the order of those first candidates.
C6_DedupFirstOccurrence ==
  ExtractDone =>
    LET c == Candidates(srs_text)
    IN  /\ \A i, j \in 1..Len(out) : i # j => Lower(out[i]) # Lower(out[j])
        /\ \A i \in 1..Len(c) : Returned(c[i])
        /\ \A k \in 1..Len(out) :
             FirstOcc(c, out[k]) > 0 /\ c[FirstOcc(c, out[k])] = out[k]
        /\ \A k \in 1..(Len(out) - 1) : FirstOcc(c, out[k]) < FirstOcc(c, out[k + 1])
        /\ srs_text = <<FRHeading, "- Add login", "- add LOGIN">> => out = <<"Add login">>

C6_Witness ==
  /\ ExtractDone
  /\ Len(out) >= 2
  /\ Len(Candidates(srs_text)) > Len(out)

\* C7: every story srs_to_user_stories returns starts with "as a ", contains
\* " i want " (both ignoring case) and is at most 280 characters long.
C7_StoryShape ==
  StoriesReturned =>
    \A k \in 1..Len(out) : IsStory(out[k]) /\ Len(out[k]) <= MaxStoryLen

\* what the primary scan collected from the document
PrimaryCandidates == PrimaryScan(CleanLines(srs_text), Len(srs_text)).reqs

\* the lines the fallback pattern matches
NumberedLines(ls) == {i \in 1..Len(ls) : ls[i] # "" /\ NumberedMatch(ls[i])}

\* the collapsed text the fallback pattern captures on each such line, in
\* the order of the lines
NumberedTexts(ls) ==
  LET idxs   == NumberedLines(ls)
      kth(k) == CHOOSE i \in idxs : Cardinality({j \in idxs : j < i}) = k - 1
  IN  [k \in 1..Cardinality(idxs) |-> CollapseWs(NumberedGroup(ls[kth(k)]))]

InSeq(x, seq) == \E i \in 1..Len(seq) : seq[i] = x

\* C8 as stated: the fallback is used exactly when the primary scan found no
\* candidate; with a primary candidate the result holds primary candidates
\* only, and with none it is the collapsed text of every line with dotted
\* multi-level numbering, in order.
C8_FallbackTextsOfEveryLine ==
  ExtractDone =>
    IF PrimaryCandidates # <<>>
    THEN \A k \in 1..Len(out) : InSeq(out[k], PrimaryCandidates)
    ELSE out = NumberedTexts(ScanLines)

\* C8, amended: as above, but without a primary candidate the result is the
\* de-duplication (ignoring case, first kept) of those texts.
C8_FallbackOnlyWhenPrimaryEmpty ==
  ExtractDone =>
    /\ IF PrimaryCandidates # <<>>
       THEN \A k \in 1..Len(out) : InSeq(out[k], PrimaryCandidates)
       ELSE out = DedupCI(NumberedTexts(ScanLines))
    /\ srs_text = <<"2.3. Support offline mode">> => out = <<"Support offline mode">>
    /\ (PrimaryCandidates = <<>> /\ NumberedLines(ScanLines) = {}) => out = <<>>

C8_Witness ==
  /\ ExtractDone
  /\ PrimaryCandidates = <<>>
  /\ Cardinality(NumberedLines(ScanLines)) = 3
  /\ Len(out) = 2

\* the request is one the handler must refuse
InputError ==
  \/ /\ op = "process_txt"
     /\ \/ ~EndsWith(payload.filename, ".txt")
        \/ \A i \in 1..Len(payload.content) :
             Len(Strip(RemoveNul(payload.content[i]))) < MinReviewLen
  \/ /\ op = "generate_stories"
     /\ (~payload.present \/ payload.srs_document = <<>>)
  \/ /\ op \in {"jira_send_selected", "jira_send_selected_classifications"}
     /\ (payload.batch = <<>> \/ Len(payload.batch) > MaxBatchItems)

\* C9: a request with an input error (a file not named *.txt or with no line
\* of 3 characters, no srs_document, an empty batch or one of more than 10)
\* ends at once in a client-facing error, with no call of the model backend
\* and no request to the issue tracker made.
C9_InputErrorsBeforeCalls ==
  InputError =>
    /\ pc = "done"
    /\ response.kind \in {"http_error", "error_body"}
    /\ askCalls = 0
    /\ jiraCalls = 0

C9_Witness ==
  /\ op = "process_txt"
  /\ EndsWith(payload.filename, ".txt")
  /\ payload.content # <<>>
  /\ response.kind = "http_error"
  /\ askCalls = 0

\* C10: in the primary scan a line with multi-level numbering ("1.1 Foo",
\* "2.3. Foo") never takes the heading branch: it leaves the current section
\* as it was, and the candidates too.
C10_MultiLevelNeverHeading ==
  ExtractDone =>
    LET ls == CleanLines(srs_text)
    IN  \A k \in 1..Len(ls) :
          (Strip(ls[k]) # "" /\ NumberedMatch(Strip(ls[k])))
            => PrimaryScan(ls, k) = PrimaryScan(ls, k - 1)

\* the position of the last "[" of t, 0 when there is none
LastOpen(t) ==
  LET opens == {i \in 1..Len(t) : Char(t, i) = "["}
  IN  IF opens = {} THEN 0 ELSE CHOOSE i \in opens : \A j \in opens : j <= i

\* what stands between the brackets when t ends with "[...]", "" otherwise
TrailingTag(t) ==
  IF Len(t) > 0 /\ Char(t, Len(t)) = "]" /\ LastOpen(t) > 0
  THEN SubSeq(t, LastOpen(t) + 1, Len(t) - 1)
  ELSE ""

IsAlpha(s) ==
  /\ s # ""
  /\ \A i \in 1..Len(s) :
       LowerChar(Char(s, i)) \in {Char(LowerLetters, j) : j \in 1..26}

ClassificationTags == {"bug", "feature", "other"}

\* the candidate a bullet's text g is to yield: one trailing tag removed (any
\* run of letters when anyAlpha, else one of ClassificationTags), then trimmed
\* and its whitespace runs collapsed
ExpectedItem(g, anyAlpha) ==
  LET t     == RStrip(g)
      tag   == TrailingTag(t)
      strip == IF anyAlpha THEN IsAlpha(tag) ELSE Lower(tag) \in ClassificationTags
      body  == IF strip THEN SubSeq(t, 1, LastOpen(t) - 1) ELSE g
  IN  CollapseWs(Strip(body))

\* line i is a bullet under a heading whose label contains "functional
\* requirements"
CapturedBullet(ls, i) ==
  /\ IsBulletAt(ls, i)
  /\ HeadingBefore(ls, i) > 0
  /\ Contains(Lower(ls[HeadingBefore(ls, i)]), "functional requirements")

\* the non-empty candidates of the captured bullets, in the order of the lines
ExpectedCandidates(ls, anyAlpha) ==
  LET idxs   == {i \in 1..Len(ls) :
                   CapturedBullet(ls, i) /\ ExpectedItem(BulletGroup(ls[i]), anyAlpha) # ""}
      kth(k) == CHOOSE i \in idxs : Cardinality({j \in idxs : j < i}) = k - 1
  IN  [k \in 1..Cardinality(idxs) |-> ExpectedItem(BulletGroup(ls[kth(k)]), anyAlpha)]

DistinctCI(seq) ==
  \A i, j \in 1..Len(seq) : i # j => Lower(seq[i]) # Lower(seq[j])

=============================================================================
